---- MODULE Spec2Model ----
(***************************************************************************)
(* Churn-prediction pipeline of mlops_project_lab: the synthetic record    *)
(* generators, the categorical encoder, feature alignment, training        *)
(* artifacts, and the scoring / test / registration entry points.          *)
(*                                                                         *)
(* Conventions.  Probabilities are integers in thousandths (0.15 = 150).   *)
(* Float columns are carried as integers.  A data frame is a record        *)
(* [columns |-> sequence of names, rows |-> sequence of rows], a row being *)
(* a function from the column names to values.                             *)
(***************************************************************************)
EXTENDS Integers, Sequences, FiniteSets, TLC

VARIABLES
    record,             \* SpecChurn: the attributes of one generated record
    churn_prob,         \* SpecChurn: its churn probability (thousandths), -1 before
    churn_steps,        \* SpecChurn: the binary64 array element after each rule
    train_ids,          \* SpecIds: customer_ids of generate_synthetic_data
    inference_ids,      \* SpecIds: customer_ids of generate_inference_data
    gen_a,              \* SpecGen: first generator run  [kind, seed, n, data]
    gen_b,              \* SpecGen: second generator run
    raw,                \* SpecFeatures: the raw data frame
    encoded,            \* SpecFeatures: the encoded frame (the caller's object)
    schema,             \* SpecFeatures: the model_features list
    aligned,            \* SpecFeatures: align_features(encoded, schema)
    realigned,          \* SpecFeatures: align_features(aligned, schema)
    model_pkl,          \* Spec: artifacts/model.pkl
    model_metadata,     \* Spec: artifacts/model_metadata.json
    inference_input,    \* Spec: data/inference_input.csv
    inference_output,   \* Spec: the output file of score
    registry,           \* Spec: what register_model logged to MLflow
    data_asset,         \* SpecAzure: the data asset upload_data created
    run,                \* Spec: what the last entry point did
    os_entropy,         \* the OS entropy an unseeded numpy generator starts from
    eval_y_test,        \* SpecMetrics: the held-out labels
    eval_y_pred,        \* SpecMetrics: the labels predicted for them
    eval_metrics,       \* SpecMetrics: the metrics dictionary
    id_sample,          \* SpecIdFormat: one customer_id of a generator's list
    shared_schema,      \* SpecScoring: the schema list the scoring calls share
    shared_model,       \* SpecScoring: the fitted classifier they share
    scoring_calls       \* SpecScoring: each scoring call's position and frames

vars == <<record, churn_prob, churn_steps, train_ids, inference_ids, gen_a, gen_b,
          raw, encoded, schema, aligned, realigned,
          model_pkl, model_metadata, inference_input, inference_output, registry,
          data_asset, run, os_entropy, eval_y_test, eval_y_pred, eval_metrics, id_sample,
          shared_schema, shared_model, scoring_calls>>

metric_vars == <<eval_y_test, eval_y_pred, eval_metrics>>
scoring_vars == <<shared_schema, shared_model, scoring_calls>>
aux_vars == <<metric_vars, id_sample, scoring_vars>>

churn_vars == <<record, churn_prob, churn_steps>>
ids_vars == <<train_ids, inference_ids>>
gen_vars == <<gen_a, gen_b>>
feature_vars == <<raw, encoded, schema, aligned, realigned>>
pipeline_vars ==
    <<model_pkl, model_metadata, inference_input, inference_output, registry,
      data_asset, run>>

None == [none |-> TRUE]

Min(a, b) == IF a <= b THEN a ELSE b

Max(a, b) == IF a >= b THEN a ELSE b

Range(s) == {s[i] : i \in DOMAIN s}

Contains(s, x) == \E i \in DOMAIN s : s[i] = x

(***************************************************************************)
(* Fixed option lists of the generators.                                   *)
(***************************************************************************)
contract_options == <<"month-to-month", "one-year", "two-year">>

internet_options == <<"dsl", "fiber_optic", "no">>

payment_options == <<"electronic_check", "mailed_check", "bank_transfer", "credit_card">>

TenureLow == 1

TenureHigh == 73

TicketsLow == 0

TicketsHigh == 11

(***************************************************************************)
(* The churn rules of generate_synthetic_data, one np.where per step.      *)
(***************************************************************************)
BaseRate == 150

MonthToMonthRate == 400

ElectronicCheckFloor == 350

FiberTicketsBump == 200

ProbCap == 1000

HighTicketsOver == 5

LongTenureOver == 36

RuleBase(r) == BaseRate

RuleContract(r, p) == IF r.contract_type = "month-to-month" THEN MonthToMonthRate ELSE p

RulePayment(r, p) ==
    IF r.payment_method = "electronic_check" THEN Max(p, ElectronicCheckFloor) ELSE p

RuleFiberTickets(r, p) ==
    LET high_tickets == r.num_support_tickets > HighTicketsOver
        fiber == r.internet_service = "fiber_optic"
    IN  IF fiber /\ high_tickets THEN Min(p + FiberTicketsBump, ProbCap) ELSE p

\* churn_prob * 0.5 in thousandths: every value reaching this step is even
RuleLongTenure(r, p) == IF r.tenure_months > LongTenureOver THEN p \div 2 ELSE p

ChurnProb(r) ==
    RuleLongTenure(r, RuleFiberTickets(r, RulePayment(r, RuleContract(r, RuleBase(r)))))

(***************************************************************************)
(* The same rules on the float64 array numpy holds.  A binary64 value v in *)
(* [2^-4, 2) is the integer v * 2^56, kept in two limbs [hi, lo] with      *)
(* lo < 2^28 (every such v is a multiple of 2^-56).  A decimal literal is  *)
(* converted by long division and rounded to 53 significant bits, ties to  *)
(* even; so is the sum of two values.                                      *)
(***************************************************************************)
LimbBits == 28

LimbBase == 2 ^ LimbBits

MantissaBits == 53

GuardBits == 2

RECURSIVE BitLength(_)
BitLength(x) == IF x = 0 THEN 0 ELSE 1 + BitLength(x \div 2)

\* round the integer hi * 2^28 + lo to 53 significant bits, ties to even; sticky says
\* that nonzero bits below the integer were already dropped
RoundToMantissa(v, sticky) ==
    LET k == LimbBits + BitLength(v.hi) - MantissaBits
    IN  IF k <= 0 THEN v
        ELSE LET q == 2 ^ k
                 rem == v.lo % q
                 odd == (v.lo \div q) % 2 = 1
                 up == \/ 2 * rem > q
                       \/ 2 * rem = q /\ (sticky \/ odd)
                 lo == v.lo - rem + (IF up THEN q ELSE 0)
             IN  [hi |-> v.hi + (lo \div LimbBase), lo |-> lo % LimbBase]

\* long division by ProbCap, one quotient bit per step: d holds the quotient so far
\* (two limbs), the remainder and the number of steps left
RECURSIVE LongDivision(_)
LongDivision(d) ==
    IF d.steps = 0 THEN d
    ELSE LET bit == IF 2 * d.remainder >= ProbCap THEN 1 ELSE 0
             lo == 2 * d.lo + bit
         IN  LongDivision([hi |-> 2 * d.hi + (lo \div LimbBase),
                           lo |-> lo % LimbBase,
                           remainder |-> 2 * d.remainder - bit * ProbCap,
                           steps |-> d.steps - 1])

\* the binary64 value of the decimal literal thousandths / 1000, as 0.15 or 1.0
Float64(thousandths) ==
    LET d == LongDivision([hi |-> 0, lo |-> thousandths \div ProbCap,
                           remainder |-> thousandths % ProbCap,
                           steps |-> 2 * LimbBits + GuardBits])
        m == RoundToMantissa([hi |-> d.hi, lo |-> d.lo], d.remainder > 0)
        scale == 2 ^ GuardBits
    IN  [hi |-> m.hi \div scale,
         lo |-> (m.hi % scale) * (LimbBase \div scale) + (m.lo \div scale)]

F64Add(a, b) ==
    LET lo == a.lo + b.lo
    IN  RoundToMantissa([hi |-> a.hi + b.hi + (lo \div LimbBase), lo |-> lo % LimbBase],
                        FALSE)

\* x * 0.5: exact, one exponent step down
F64Half(a) ==
    [hi |-> a.hi \div 2, lo |-> (a.hi % 2) * (LimbBase \div 2) + (a.lo \div 2)]

F64Less(a, b) == a.hi < b.hi \/ (a.hi = b.hi /\ a.lo < b.lo)

F64LessEq(a, b) == ~F64Less(b, a)

F64Maximum(a, b) == IF F64Less(a, b) THEN b ELSE a

F64Minimum(a, b) == IF F64Less(b, a) THEN b ELSE a

\* np.where(payment_method == "electronic_check", 0.35, churn_prob)
PaymentStepSets(r, p) ==
    IF r.payment_method = "electronic_check" THEN Float64(ElectronicCheckFloor) ELSE p

\* np.where(payment_method == "electronic_check", np.maximum(churn_prob, 0.35), churn_prob)
PaymentStep(r, p) ==
    IF r.payment_method = "electronic_check"
    THEN F64Maximum(p, Float64(ElectronicCheckFloor)) ELSE p

\* the array element after each assignment to churn_prob; uncapped is the
\* churn_prob + 0.20 that np.minimum receives
ChurnSteps(r) ==
    LET base == Float64(BaseRate)
        contract ==
            IF r.contract_type = "month-to-month" THEN Float64(MonthToMonthRate) ELSE base
        payment == PaymentStep(r, contract)
        high_tickets == r.num_support_tickets > HighTicketsOver
        fiber == r.internet_service = "fiber_optic"
        uncapped == F64Add(payment, Float64(FiberTicketsBump))
        fiber_tickets ==
            IF fiber /\ high_tickets THEN F64Minimum(uncapped, Float64(ProbCap))
            ELSE payment
        long_tenure == r.tenure_months > LongTenureOver
        tenure == IF long_tenure THEN F64Half(fiber_tickets) ELSE fiber_tickets
    IN  [base |-> base, contract |-> contract, payment |-> payment,
         uncapped |-> uncapped, fiber_tickets |-> fiber_tickets, tenure |-> tenure]

(***************************************************************************)
(* customer_id: f"CUST-{i:05d}", decimal digits zero-padded to width 5     *)
(* (wider when the number has more digits).                                *)
(***************************************************************************)
DigitChars == <<"0", "1", "2", "3", "4", "5", "6", "7", "8", "9">>

IdWidth == 5

TrainIdStart == 1

InferenceIdStart == 10001

RECURSIVE Decimal(_)
Decimal(i) ==
    IF i < 10 THEN DigitChars[i + 1]
    ELSE Decimal(i \div 10) \o DigitChars[(i % 10) + 1]

RECURSIVE ZeroPad(_, _)
ZeroPad(s, width) == IF Len(s) >= width THEN s ELSE ZeroPad("0" \o s, width)

FormatId(i) == "CUST-" \o ZeroPad(Decimal(i), IdWidth)

\* range(1, n_samples + 1)
TrainCustomerIds(n_samples) ==
    [k \in 1..n_samples |-> FormatId(TrainIdStart + k - 1)]

\* range(10001, 10001 + n_samples)
InferenceCustomerIds(n_samples) ==
    [k \in 1..n_samples |-> FormatId(InferenceIdStart + k - 1)]

(***************************************************************************)
(* numpy Generator.  A generator is its seed key and the number of raw     *)
(* words drawn so far; word k of a key is a fixed mixing function, so the  *)
(* stream is a function of the key alone.  A vectorised draw of n values   *)
(* consumes n words.                                                       *)
(***************************************************************************)
WordModulus == 65521

Word(key, k) ==
    ((key + 1) * 7919 + (k + 1) * 104729 + (key + 1) * (k + 1) * (k + 7) * 31)
        % WordModulus

default_rng_unseeded(seed) == [key |-> os_entropy, pos |-> 0]

default_rng(seed) == [key |-> seed, pos |-> 0]

Advance(rng, n) == [rng EXCEPT !.pos = @ + n]

\* rng.integers(low, high, size=n): low inclusive, high exclusive
DrawIntegers(rng, low, high, n) ==
    [i \in 1..n |-> low + (Word(rng.key, rng.pos + i - 1) % (high - low))]

\* rng.uniform(low, high, size=n), in whole units
DrawUniform(rng, low, high, n) ==
    [i \in 1..n |-> low + (Word(rng.key, rng.pos + i - 1) % (high - low))]

NormalSpread == 7

\* rng.normal(mean, std, size=n), on a grid of whole standard deviations
DrawNormal(rng, mean, std, n) ==
    [i \in 1..n |->
        mean + std * ((Word(rng.key, rng.pos + i - 1) % NormalSpread) - (NormalSpread \div 2))]

\* rng.choice(options, size=n)
DrawChoice(rng, options, n) ==
    [i \in 1..n |-> options[(Word(rng.key, rng.pos + i - 1) % Len(options)) + 1]]

\* rng.binomial(1, p) with a per-item probability vector p (thousandths)
DrawBinomial(rng, p) ==
    [i \in DOMAIN p |->
        IF (Word(rng.key, rng.pos + i - 1) % ProbCap) < p[i] THEN 1 ELSE 0]

ChargesLow == 20

ChargesHigh == 120

NoiseMean == 0

NoiseStd == 50

RawColumns ==
    <<"tenure_months", "monthly_charges", "total_charges", "contract_type",
      "internet_service", "payment_method", "num_support_tickets">>

InferenceColumns == <<"customer_id">> \o RawColumns

TrainColumns == InferenceColumns \o <<"churned">>

TotalChargesUnfloored(tenure, monthly, noise) == tenure * monthly + noise

\* np.maximum(tenure_months * monthly_charges + noise, 0.0), one element
TotalCharges(tenure, monthly, noise) == Max(tenure * monthly + noise, 0)

\* the draws of generate_synthetic_data before the label, in the order it makes them
DrawAttributes(rng, n_samples) ==
    LET tenure_months == DrawIntegers(rng, TenureLow, TenureHigh, n_samples)
        g1 == Advance(rng, n_samples)
        monthly_charges == DrawUniform(g1, ChargesLow, ChargesHigh, n_samples)
        g2 == Advance(g1, n_samples)
        noise == DrawNormal(g2, NoiseMean, NoiseStd, n_samples)
        g3 == Advance(g2, n_samples)
        total_charges ==
            [i \in 1..n_samples |->
                TotalCharges(tenure_months[i], monthly_charges[i], noise[i])]
        contract_type == DrawChoice(g3, contract_options, n_samples)
        g4 == Advance(g3, n_samples)
        internet_service == DrawChoice(g4, internet_options, n_samples)
        g5 == Advance(g4, n_samples)
        payment_method == DrawChoice(g5, payment_options, n_samples)
        g6 == Advance(g5, n_samples)
        num_support_tickets == DrawIntegers(g6, TicketsLow, TicketsHigh, n_samples)
        g7 == Advance(g6, n_samples)
    IN  [rng |-> g7,
         rows |-> [i \in 1..n_samples |->
                    [tenure_months |-> tenure_months[i],
                     monthly_charges |-> monthly_charges[i],
                     total_charges |-> total_charges[i],
                     contract_type |-> contract_type[i],
                     internet_service |-> internet_service[i],
                     payment_method |-> payment_method[i],
                     num_support_tickets |-> num_support_tickets[i]]]]

DrawInferenceAttributesSwapped(rng, n_samples) ==
    LET tenure_months == DrawIntegers(rng, TenureLow, TenureHigh, n_samples)
        g1 == Advance(rng, n_samples)
        monthly_charges == DrawUniform(g1, ChargesLow, ChargesHigh, n_samples)
        g2 == Advance(g1, n_samples)
        noise == DrawNormal(g2, NoiseMean, NoiseStd, n_samples)
        g3 == Advance(g2, n_samples)
        total_charges ==
            [i \in 1..n_samples |->
                TotalCharges(tenure_months[i], monthly_charges[i], noise[i])]
        internet_service == DrawChoice(g3, internet_options, n_samples)
        g4 == Advance(g3, n_samples)
        contract_type == DrawChoice(g4, contract_options, n_samples)
        g5 == Advance(g4, n_samples)
        payment_method == DrawChoice(g5, payment_options, n_samples)
        g6 == Advance(g5, n_samples)
        num_support_tickets == DrawIntegers(g6, TicketsLow, TicketsHigh, n_samples)
        g7 == Advance(g6, n_samples)
    IN  [rng |-> g7,
         rows |-> [i \in 1..n_samples |->
                    [tenure_months |-> tenure_months[i],
                     monthly_charges |-> monthly_charges[i],
                     total_charges |-> total_charges[i],
                     contract_type |-> contract_type[i],
                     internet_service |-> internet_service[i],
                     payment_method |-> payment_method[i],
                     num_support_tickets |-> num_support_tickets[i]]]]

\* the draws of generate_inference_data, in the order it makes them
DrawInferenceAttributes(rng, n_samples) ==
    LET tenure_months == DrawIntegers(rng, TenureLow, TenureHigh, n_samples)
        g1 == Advance(rng, n_samples)
        monthly_charges == DrawUniform(g1, ChargesLow, ChargesHigh, n_samples)
        g2 == Advance(g1, n_samples)
        noise == DrawNormal(g2, NoiseMean, NoiseStd, n_samples)
        g3 == Advance(g2, n_samples)
        total_charges ==
            [i \in 1..n_samples |->
                TotalCharges(tenure_months[i], monthly_charges[i], noise[i])]
        contract_type == DrawChoice(g3, contract_options, n_samples)
        g4 == Advance(g3, n_samples)
        internet_service == DrawChoice(g4, internet_options, n_samples)
        g5 == Advance(g4, n_samples)
        payment_method == DrawChoice(g5, payment_options, n_samples)
        g6 == Advance(g5, n_samples)
        num_support_tickets == DrawIntegers(g6, TicketsLow, TicketsHigh, n_samples)
        g7 == Advance(g6, n_samples)
    IN  [rng |-> g7,
         rows |-> [i \in 1..n_samples |->
                    [tenure_months |-> tenure_months[i],
                     monthly_charges |-> monthly_charges[i],
                     total_charges |-> total_charges[i],
                     contract_type |-> contract_type[i],
                     internet_service |-> internet_service[i],
                     payment_method |-> payment_method[i],
                     num_support_tickets |-> num_support_tickets[i]]]]

WithField(row, name, value) ==
    [c \in (DOMAIN row) \cup {name} |-> IF c = name THEN value ELSE row[c]]

generate_synthetic_data(n_samples, seed) ==
    LET rng == default_rng(seed)
        customer_ids == TrainCustomerIds(n_samples)
        drawn == DrawAttributes(rng, n_samples)
        churn_probs == [i \in 1..n_samples |-> ChurnProb(drawn.rows[i])]
        churned == DrawBinomial(drawn.rng, churn_probs)
    IN  [columns |-> TrainColumns,
         rows |-> [i \in 1..n_samples |->
                    WithField(WithField(drawn.rows[i], "customer_id", customer_ids[i]),
                              "churned", churned[i])]]

generate_inference_data(n_samples, seed) ==
    LET rng == default_rng(seed)
        customer_ids == InferenceCustomerIds(n_samples)
        drawn == DrawInferenceAttributes(rng, n_samples)
    IN  [columns |-> InferenceColumns,
         rows |-> [i \in 1..n_samples |->
                    WithField(drawn.rows[i], "customer_id", customer_ids[i])]]

(***************************************************************************)
(* pd.get_dummies(data, columns=...): the columns not listed pass through   *)
(* first, in their order; then, per listed column in the listed order, one *)
(* indicator column per value observed in the data, the values in sorted   *)
(* order.                                                                  *)
(***************************************************************************)
CATEGORICAL_COLUMNS == <<"contract_type", "internet_service", "payment_method">>

\* the values of a categorical column in the order pandas sorts them
SortedValues(column) ==
    CASE column = "contract_type" -> <<"month-to-month", "one-year", "two-year">>
      [] column = "internet_service" -> <<"dsl", "fiber_optic", "no">>
      [] column = "payment_method" ->
            <<"bank_transfer", "credit_card", "electronic_check", "mailed_check">>
      [] OTHER -> <<>>

Observed(data, column) == {data.rows[i][column] : i \in DOMAIN data.rows}

DummyValuesAllOptions(data, column) == SortedValues(column)

DummyValues(data, column) ==
    SelectSeq(SortedValues(column), LAMBDA v : v \in Observed(data, column))

DummyName(column, value) == column \o "_" \o value

RECURSIVE DummyPairs(_, _)
DummyPairs(data, columns) ==
    IF columns = <<>> THEN <<>>
    ELSE LET c == Head(columns)
             values == DummyValues(data, c)
         IN  [k \in 1..Len(values) |->
                 [column |-> c, value |-> values[k], name |-> DummyName(c, values[k])]]
             \o DummyPairs(data, Tail(columns))

\* dtype=int gives 0/1; the default dtype (bool, or uint8 in older pandas) is carried
\* as 0/1 too, which is what a classifier sees once the matrix is cast to float
Indicator(hit) == IF hit THEN 1 ELSE 0

get_dummies(data, columns) ==
    LET passthrough == SelectSeq(data.columns, LAMBDA c : ~Contains(columns, c))
        pairs == DummyPairs(data, columns)
        names == [k \in 1..Len(pairs) |-> pairs[k].name]
        pair_of(name) == CHOOSE q \in Range(pairs) : q.name = name
    IN  [columns |-> passthrough \o names,
         rows |-> [i \in DOMAIN data.rows |->
                    [c \in Range(passthrough) \cup Range(names) |->
                        IF c \in Range(passthrough) THEN data.rows[i][c]
                        ELSE Indicator(data.rows[i][pair_of(c).column] = pair_of(c).value)]]]

encode_features(data) == get_dummies(data, CATEGORICAL_COLUMNS)

\* data.drop(columns=names)
DropColumns(data, names) ==
    LET kept == SelectSeq(data.columns, LAMBDA c : c \notin names)
    IN  [columns |-> kept,
         rows |-> [i \in DOMAIN data.rows |-> [c \in Range(kept) |-> data.rows[i][c]]]]

prepare_features_keep_label(data) ==
    [features |-> get_dummies(DropColumns(data, {"customer_id"}), CATEGORICAL_COLUMNS),
     target |-> [i \in DOMAIN data.rows |-> data.rows[i]["churned"]]]

prepare_features(data) ==
    [features |-> get_dummies(DropColumns(data, {"customer_id", "churned"}),
                              CATEGORICAL_COLUMNS),
     target |-> [i \in DOMAIN data.rows |-> data.rows[i]["churned"]]]

(***************************************************************************)
(* align_features: the loop adds each missing schema column to the         *)
(* caller's frame (in place), then data[model_features] selects by name    *)
(* and raises KeyError when a name is not a column.                        *)
(***************************************************************************)
KeyError == [error |-> "KeyError"]

\* data[col] = 0
SetColumn(data, col, value) ==
    [columns |-> IF Contains(data.columns, col) THEN data.columns
                 ELSE Append(data.columns, col),
     rows |-> [i \in DOMAIN data.rows |-> WithField(data.rows[i], col, value)]]

AddMissingColumnsNone(data, model_features) == data

RECURSIVE AddMissingColumns(_, _)
AddMissingColumns(data, model_features) ==
    IF model_features = <<>> THEN data
    ELSE LET col == Head(model_features)
         IN  AddMissingColumns(
                 IF ~Contains(data.columns, col) THEN SetColumn(data, col, 0) ELSE data,
                 Tail(model_features))

\* data[names]
SelectColumns(data, names) ==
    IF \E k \in DOMAIN names : ~Contains(data.columns, names[k]) THEN KeyError
    ELSE [columns |-> names,
          rows |-> [i \in DOMAIN data.rows |-> [c \in Range(names) |-> data.rows[i][c]]]]

\* [data |-> the caller's frame after the call, result |-> the returned frame or KeyError]
align_features_drop_first(data, model_features) ==
    LET cut == DropColumns(data, {data.columns[k] : k \in (DOMAIN data.columns) \cap {1}})
        filled == AddMissingColumns(cut, model_features)
    IN  [data |-> filled, result |-> SelectColumns(filled, model_features)]

align_features(data, model_features) ==
    LET filled == AddMissingColumns(data, model_features)
    IN  [data |-> filled, result |-> SelectColumns(filled, model_features)]

(***************************************************************************)
(* The classifier.  train_test_split, RandomForestClassifier.fit, predict  *)
(* and predict_proba are library code: the split holds out ceil(0.2 n)     *)
(* rows chosen by the seed and fails when no training row is left; a       *)
(* fitted classifier knows the column names it was fitted on and the       *)
(* classes it saw; predict and predict_proba raise ValueError unless the   *)
(* frame's columns are those names in that order; the probabilities are a  *)
(* fixed function of the classifier and the row.                           *)
(***************************************************************************)
TestSizeInverse == 5

n_estimators == 100

\* ceil(test_size * n) with test_size = 0.2
TestCount(n) == (n + TestSizeInverse - 1) \div TestSizeInverse

TestIndices(n, seed) ==
    LET first == Word(seed, 0) % n
    IN  {((first + j) % n) + 1 : j \in 0..(TestCount(n) - 1)}

\* the sub-frame of the rows whose index is in keep, in order
TakeRows(seq, keep) ==
    LET idx == SelectSeq([i \in DOMAIN seq |-> i], LAMBDA i : i \in keep)
    IN  [k \in DOMAIN idx |-> seq[idx[k]]]

train_test_split(features, target, seed) ==
    LET n == Len(features.rows)
        test == TestIndices(n, seed)
        train == (1..n) \ test
    IN  [x_train |-> [columns |-> features.columns, rows |-> TakeRows(features.rows, train)],
         x_test |-> [columns |-> features.columns, rows |-> TakeRows(features.rows, test)],
         y_train |-> TakeRows(target, train),
         y_test |-> TakeRows(target, test)]

fit(x_train, y_train, seed) ==
    [feature_names_in_ |-> x_train.columns,
     classes_ |-> SelectSeq(<<0, 1>>, LAMBDA c : Contains(y_train, c)),
     random_state |-> seed,
     n_train |-> Len(x_train.rows)]

\* sklearn's feature-name validation
CheckFeatureNames(model, X) == X.columns = model.feature_names_in_

RECURSIVE WeightedSum(_, _, _)
WeightedSum(row, names, k) ==
    IF k > Len(names) THEN 0
    ELSE k * row[names[k]] + WeightedSum(row, names, k + 1)

\* how many of the trees vote for class 1; the frame is read as an array, by position
Votes(model, columns, row) ==
    (model.random_state + model.n_train + WeightedSum(row, columns, 1))
        % (n_estimators + 1)

\* the columns holding strings, which do not convert to float
StringColumns == {"customer_id"} \cup Range(CATEGORICAL_COLUMNS)

Validates(model, X) ==
    /\ CheckFeatureNames(model, X)
    /\ Range(X.columns) \cap StringColumns = {}

\* one vote of n_estimators trees, in thousandths
ThousandthsPerVote == ProbCap \div n_estimators

\* predict and predict_proba answer [raised |-> TRUE] for the ValueError, or
\* [raised |-> FALSE, values |-> one entry per input row]
ValueError == [raised |-> TRUE]

\* one row of class probabilities (thousandths) per input row, a column per class
predict_proba(model, X) ==
    IF ~Validates(model, X) THEN ValueError
    ELSE [raised |-> FALSE,
          values |-> [i \in DOMAIN X.rows |->
            LET p == Votes(model, X.columns, X.rows[i]) * ThousandthsPerVote
            IN  IF Len(model.classes_) = 2 THEN <<ProbCap - p, p>> ELSE <<ProbCap>>]]

predict(model, X) ==
    IF ~Validates(model, X) THEN ValueError
    ELSE [raised |-> FALSE,
          values |-> [i \in DOMAIN X.rows |->
            IF Len(model.classes_) = 2
            THEN (IF 2 * Votes(model, X.columns, X.rows[i]) > n_estimators THEN 1 ELSE 0)
            ELSE model.classes_[1]]]

(***************************************************************************)
(* Metrics, in ten-thousandths (round(x, 4)), zero_division=0.             *)
(***************************************************************************)
MetricScale == 10000

RatioZeroDivisionOne(num, den) ==
    IF den = 0 THEN MetricScale ELSE (2 * MetricScale * num + den) \div (2 * den)

\* num / den rounded to four places; zero_division=0 answers 0.0 for den = 0
Ratio(num, den) ==
    IF den = 0 THEN 0 ELSE (2 * MetricScale * num + den) \div (2 * den)

CountPairs(y_true, y_pred, t, q) ==
    Cardinality({i \in DOMAIN y_true : y_true[i] = t /\ y_pred[i] = q})

Metrics(y_test, y_pred) ==
    LET tp == CountPairs(y_test, y_pred, 1, 1)
        fp == CountPairs(y_test, y_pred, 0, 1)
        fn == CountPairs(y_test, y_pred, 1, 0)
        tn == CountPairs(y_test, y_pred, 0, 0)
    IN  [accuracy |-> Ratio(tp + tn, Len(y_test)),
         precision |-> Ratio(tp, tp + fp),
         recall |-> Ratio(tp, tp + fn),
         f1_score |-> Ratio(2 * tp, 2 * tp + fp + fn)]

\* [raised |-> the split left no training row, model, metrics]
train_and_evaluate(features, target, seed) ==
    LET n == Len(features.rows)
    IN  IF n - TestCount(n) = 0
        THEN [raised |-> TRUE]
        ELSE LET split == train_test_split(features, target, seed)
                 model == fit(split.x_train, split.y_train, seed)
                 y_pred == predict(model, split.x_test).values
             IN  [raised |-> FALSE, model |-> model,
                  metrics |-> Metrics(split.y_test, y_pred)]

(***************************************************************************)
(* Idle values: what each group of variables holds in a specification that *)
(* does not exercise it.                                                   *)
(***************************************************************************)
ChurnIdle == record = None /\ churn_prob = -1 /\ churn_steps = None

IdsIdle == train_ids = <<>> /\ inference_ids = <<>>

GenIdle == gen_a = None /\ gen_b = None

FeaturesIdle ==
    /\ raw = None
    /\ encoded = None
    /\ schema = <<>>
    /\ aligned = None
    /\ realigned = None

PipelineIdle ==
    /\ model_pkl = None
    /\ model_metadata = None
    /\ inference_input = None
    /\ inference_output = None
    /\ registry = None
    /\ data_asset = None
    /\ run = None

MetricsIdle == eval_y_test = <<>> /\ eval_y_pred = <<>> /\ eval_metrics = None

IdSampleIdle == id_sample = None

ScoringIdle == shared_schema = <<>> /\ shared_model = None /\ scoring_calls = <<>>

AuxIdle == MetricsIdle /\ IdSampleIdle /\ ScoringIdle

EntropyPool == {7, 11}

(***************************************************************************)
(* SpecChurn: the churn rules applied to one record, over every            *)
(* combination of the attributes the rules read.                           *)
(***************************************************************************)
ChurnRecords ==
    [contract_type : Range(contract_options),
     payment_method : Range(payment_options),
     internet_service : Range(internet_options),
     num_support_tickets : TicketsLow..(TicketsHigh - 1),
     tenure_months : TenureLow..(TenureHigh - 1)]

InitChurn ==
    /\ record \in ChurnRecords
    /\ churn_prob = -1
    /\ churn_steps = None
    /\ IdsIdle /\ GenIdle /\ FeaturesIdle /\ PipelineIdle /\ AuxIdle
    /\ os_entropy = 0

ComputeChurnProb ==
    /\ churn_prob = -1
    /\ churn_prob' = ChurnProb(record)
    /\ churn_steps' = ChurnSteps(record)
    /\ UNCHANGED <<record, ids_vars, gen_vars, feature_vars, pipeline_vars, os_entropy, aux_vars>>

NextChurn == ComputeChurnProb

SpecChurn == InitChurn /\ [][NextChurn]_vars

(***************************************************************************)
(* SpecIds: the customer_id lists of the two generators.                   *)
(***************************************************************************)
MaxIdSamples == 8

DefaultTrainSamples == 10000

IdSampleCounts == (1..MaxIdSamples) \cup {DefaultTrainSamples, DefaultTrainSamples + 1}

InitIds ==
    /\ train_ids = <<>>
    /\ inference_ids = <<>>
    /\ ChurnIdle /\ GenIdle /\ FeaturesIdle /\ PipelineIdle /\ AuxIdle
    /\ os_entropy = 0

GenerateTrainIds(n_samples) ==
    /\ train_ids' = TrainCustomerIds(n_samples)
    /\ UNCHANGED <<inference_ids, churn_vars, gen_vars, feature_vars, pipeline_vars, os_entropy, aux_vars>>

GenerateInferenceIds(n_samples) ==
    /\ inference_ids' = InferenceCustomerIds(n_samples)
    /\ UNCHANGED <<train_ids, churn_vars, gen_vars, feature_vars, pipeline_vars, os_entropy, aux_vars>>

NextIds ==
    \/ \E n \in IdSampleCounts : GenerateTrainIds(n)
    \/ \E n \in IdSampleCounts : GenerateInferenceIds(n)

SpecIds == InitIds /\ [][NextIds]_vars

(***************************************************************************)
(* SpecGen: two runs of the generators, side by side.                      *)
(***************************************************************************)
MaxGenSamples == 3

Seeds == {42, 123, 7, 55}

GenKinds == {"train", "inference"}

Generate(kind, n_samples, seed) ==
    IF kind = "train" THEN generate_synthetic_data(n_samples, seed)
    ELSE generate_inference_data(n_samples, seed)

GenRun(kind, n_samples, seed) ==
    [kind |-> kind, seed |-> seed, n_samples |-> n_samples,
     data |-> Generate(kind, n_samples, seed)]

InitGen ==
    /\ gen_a = None
    /\ gen_b = None
    /\ os_entropy \in EntropyPool
    /\ ChurnIdle /\ IdsIdle /\ FeaturesIdle /\ PipelineIdle /\ AuxIdle

RunA(kind, n_samples, seed) ==
    /\ gen_a' = GenRun(kind, n_samples, seed)
    /\ os_entropy' \in EntropyPool
    /\ UNCHANGED <<gen_b, churn_vars, ids_vars, feature_vars, pipeline_vars, aux_vars>>

RunB(kind, n_samples, seed) ==
    /\ gen_b' = GenRun(kind, n_samples, seed)
    /\ os_entropy' \in EntropyPool
    /\ UNCHANGED <<gen_a, churn_vars, ids_vars, feature_vars, pipeline_vars, aux_vars>>

NextGen ==
    \/ \E k \in GenKinds, n \in 1..MaxGenSamples, s \in Seeds : RunA(k, n, s)
    \/ \E k \in GenKinds, n \in 1..MaxGenSamples, s \in Seeds : RunB(k, n, s)

SpecGen == InitGen /\ [][NextGen]_vars

(***************************************************************************)
(* SpecFeatures: encode a raw frame, then align it to a schema, twice.     *)
(* The raw frames are built from the sample records of test_model; the     *)
(* schema is any list of unique names, or the one captured from the        *)
(* encoded frame itself.                                                   *)
(***************************************************************************)
MaxRows == 2

MaxSchemaLen == 2

create_sample_records ==
    [columns |-> RawColumns,
     rows |-> <<
        [tenure_months |-> 5, monthly_charges |-> 90, total_charges |-> 450,
         contract_type |-> "month-to-month", internet_service |-> "fiber_optic",
         payment_method |-> "electronic_check", num_support_tickets |-> 7],
        [tenure_months |-> 48, monthly_charges |-> 55, total_charges |-> 2640,
         contract_type |-> "two-year", internet_service |-> "dsl",
         payment_method |-> "bank_transfer", num_support_tickets |-> 1],
        [tenure_months |-> 12, monthly_charges |-> 75, total_charges |-> 900,
         contract_type |-> "one-year", internet_service |-> "fiber_optic",
         payment_method |-> "credit_card", num_support_tickets |-> 3],
        [tenure_months |-> 2, monthly_charges |-> 110, total_charges |-> 220,
         contract_type |-> "month-to-month", internet_service |-> "fiber_optic",
         payment_method |-> "mailed_check", num_support_tickets |-> 9],
        [tenure_months |-> 60, monthly_charges |-> 30, total_charges |-> 1800,
         contract_type |-> "two-year", internet_service |-> "no",
         payment_method |-> "bank_transfer", num_support_tickets |-> 0] >>]

RowPool == Range(create_sample_records.rows)

RawFrames ==
    {[columns |-> RawColumns, rows |-> rs] :
        rs \in UNION {[1..k -> RowPool] : k \in 1..MaxRows}}

SchemaNames ==
    {"tenure_months", "contract_type_one-year", "contract_type_two-year",
     "payment_method_mailed_check", "internet_service_satellite"}

SchemaPool ==
    {sq \in UNION {[1..k -> SchemaNames] : k \in 0..MaxSchemaLen} :
        \A i, j \in DOMAIN sq : sq[i] = sq[j] => i = j}

InitFeatures ==
    /\ raw \in RawFrames
    /\ schema \in SchemaPool
    /\ encoded = None
    /\ aligned = None
    /\ realigned = None
    /\ ChurnIdle /\ IdsIdle /\ GenIdle /\ PipelineIdle /\ AuxIdle
    /\ os_entropy = 0

Encode ==
    /\ encoded = None
    /\ encoded' = encode_features(raw)
    /\ UNCHANGED <<raw, schema, aligned, realigned>>
    /\ UNCHANGED <<churn_vars, ids_vars, gen_vars, pipeline_vars, os_entropy, aux_vars>>

\* feature_list = list(features.columns)
CaptureSchema ==
    /\ encoded # None
    /\ aligned = None
    /\ schema' = encoded.columns
    /\ UNCHANGED <<raw, encoded, aligned, realigned>>
    /\ UNCHANGED <<churn_vars, ids_vars, gen_vars, pipeline_vars, os_entropy, aux_vars>>

Align ==
    /\ encoded # None
    /\ aligned = None
    /\ LET call == align_features(encoded, schema)
       IN  /\ encoded' = call.data
           /\ aligned' = call.result
    /\ UNCHANGED <<raw, schema, realigned>>
    /\ UNCHANGED <<churn_vars, ids_vars, gen_vars, pipeline_vars, os_entropy, aux_vars>>

Realign ==
    /\ aligned # None
    /\ aligned # KeyError
    /\ realigned = None
    /\ LET call == align_features(aligned, schema)
       IN  /\ aligned' = call.data
           /\ realigned' = call.result
    /\ UNCHANGED <<raw, encoded, schema>>
    /\ UNCHANGED <<churn_vars, ids_vars, gen_vars, pipeline_vars, os_entropy, aux_vars>>

NextFeatures == Encode \/ CaptureSchema \/ Align \/ Realign

SpecFeatures == InitFeatures /\ [][NextFeatures]_vars

(***************************************************************************)
(* SpecMetrics: the metrics dictionary of train_and_evaluate, over every    *)
(* held-out label vector and every prediction vector of the same length.   *)
(***************************************************************************)
MaxHeldOut == 3

core_vars ==
    <<churn_vars, ids_vars, gen_vars, feature_vars, pipeline_vars, os_entropy>>

LabelVectors(n) == [1..n -> {0, 1}]

InitMetrics ==
    /\ \E n \in 1..MaxHeldOut :
        /\ eval_y_test \in LabelVectors(n)
        /\ eval_y_pred \in LabelVectors(n)
    /\ eval_metrics = None
    /\ IdSampleIdle /\ ScoringIdle
    /\ ChurnIdle /\ IdsIdle /\ GenIdle /\ FeaturesIdle /\ PipelineIdle
    /\ os_entropy = 0

\* metrics = {"accuracy": ..., "precision": ..., "recall": ..., "f1_score": ...}
EvaluateMetrics ==
    /\ eval_metrics = None
    /\ eval_metrics' = Metrics(eval_y_test, eval_y_pred)
    /\ UNCHANGED <<eval_y_test, eval_y_pred, id_sample, scoring_vars, core_vars>>

NextMetrics == EvaluateMetrics

SpecMetrics == InitMetrics /\ [][NextMetrics]_vars

(***************************************************************************)
(* Spec: the entry points, run one after another on one working directory. *)
(* run records what the last entry point did: its exit status, the error   *)
(* it caught, each classifier invocation (the columns passed and the       *)
(* columns the classifier was fitted on), and for score the input read,    *)
(* the columns of the matrix built and whether the output was written.     *)
(***************************************************************************)
MaxSamples == 3

\* succeeded: the operation the script exists for took effect; azure: an Azure
\* operation was attempted; settings: how the workspace settings were resolved
RunRecord(script, exit_code, error, calls) ==
    [script |-> script, exit_code |-> exit_code, error |-> error, calls |-> calls,
     input |-> None, features |-> <<>>, model_loaded |-> FALSE, wrote_output |-> FALSE,
     succeeded |-> FALSE, azure |-> FALSE, settings |-> "none", job_status |-> ""]

Succeeded(r) == [r EXCEPT !.succeeded = TRUE]

Invocation(site, model, X) ==
    [site |-> site, columns |-> X.columns, feature_names |-> model.feature_names_in_]

PipelineSeeds == {42, 123}

Init ==
    /\ PipelineIdle
    /\ os_entropy = CHOOSE e \in EntropyPool : TRUE
    /\ ChurnIdle /\ IdsIdle /\ GenIdle /\ FeaturesIdle /\ AuxIdle

\* train_model.py main; io_failure: save_artifacts fails after model.pkl is written
TrainMain(n_samples, seed, io_failure) ==
    LET data == generate_synthetic_data(n_samples, seed)
        prepared == prepare_features(data)
        feature_list == prepared.features.columns
        trained == train_and_evaluate(prepared.features, prepared.target, seed)
        metadata ==
            [model_name |-> "churn_prediction_rf",
             model_type |-> "RandomForestClassifier",
             num_samples |-> n_samples,
             features |-> feature_list,
             metrics |-> trained.metrics,
             random_seed |-> seed]
    IN  /\ IF trained.raised
           THEN /\ run' = RunRecord("train_model", 1, "ValueError", <<>>)
                /\ UNCHANGED <<model_pkl, model_metadata>>
           ELSE /\ model_pkl' = trained.model
                /\ IF io_failure
                   THEN /\ run' = RunRecord("train_model", 1, "OSError", <<>>)
                        /\ UNCHANGED model_metadata
                   ELSE /\ run' = Succeeded(RunRecord("train_model", 0, "", <<>>))
                        /\ model_metadata' = metadata
        /\ UNCHANGED <<inference_input, inference_output, registry, data_asset,
                       os_entropy>>
        /\ UNCHANGED <<churn_vars, ids_vars, gen_vars, feature_vars, aux_vars>>

\* create_inference_data.py main
CreateInferenceMain(n_samples, seed) ==
    /\ inference_input' = generate_inference_data(n_samples, seed)
    /\ run' = Succeeded(RunRecord("create_inference_data", 0, "", <<>>))
    /\ UNCHANGED <<model_pkl, model_metadata, inference_output, registry, data_asset,
                   os_entropy>>
    /\ UNCHANGED <<churn_vars, ids_vars, gen_vars, feature_vars, aux_vars>>

\* test_model.py main
TestModelMain ==
    /\ IF model_pkl = None
       THEN run' = RunRecord("test_model", 1, "FileNotFoundError", <<>>)
       ELSE LET model == model_pkl
                model_features == model.feature_names_in_
                sample_data == create_sample_records
                encoded_data == encode_features(sample_data)
                aligned_data == align_features(encoded_data, model_features).result
                calls == <<Invocation("test_model.predict_proba", model, aligned_data),
                           Invocation("test_model.predict", model, aligned_data)>>
            IN  IF aligned_data = KeyError
                THEN run' = RunRecord("test_model", 1, "KeyError", <<>>)
                ELSE IF predict_proba(model, aligned_data).raised
                THEN run' = RunRecord("test_model", 1, "ValueError", <<calls[1]>>)
                \* probabilities[idx][1] with a classifier fitted on one class
                ELSE IF Len(model.classes_) < 2
                THEN run' = RunRecord("test_model", 1, "IndexError", calls)
                ELSE run' = Succeeded(RunRecord("test_model", 0, "", calls))
    /\ UNCHANGED <<model_pkl, model_metadata, inference_input, inference_output,
                   registry, data_asset, os_entropy>>
    /\ UNCHANGED <<churn_vars, ids_vars, gen_vars, feature_vars, aux_vars>>

\* the CSV files a caller may hand to score: data/inference_input.csv as
\* create_inference_data wrote it, or that file with the customer_id column removed
ScoreInputs ==
    IF inference_input = None THEN {None}
    ELSE {inference_input, DropColumns(inference_input, {"customer_id"})}

\* the classifiers models:/<name>/latest can resolve to: what register_model
\* logged, or the persisted classifier registered by other means
RegisteredModels ==
    (IF registry = None THEN {} ELSE {registry.model})
        \cup (IF model_pkl = None THEN {} ELSE {model_pkl})

ModelInputAligned(model, features_df) ==
    align_features(features_df, model.feature_names_in_).result

\* the matrix score hands to predict_proba: features_df as get_dummies built it
ModelInput(model, features_df) == features_df

ScoreFailed(error, loaded, input, features, calls) ==
    [RunRecord("score", 1, error, calls) EXCEPT
        !.input = input, !.features = features, !.model_loaded = loaded]

\* score.py score and main; input = None: the input file does not exist
Score(model, input) ==
    /\ IF model = None
       THEN /\ run' = ScoreFailed("MlflowException", FALSE, None, <<>>, <<>>)
            /\ UNCHANGED inference_output
       ELSE IF input = None
       THEN /\ run' = ScoreFailed("FileNotFoundError", TRUE, None, <<>>, <<>>)
            /\ UNCHANGED inference_output
       ELSE LET input_df == input
                original_df == input_df
                features_df == get_dummies(input_df, CATEGORICAL_COLUMNS)
                passed == ModelInput(model, features_df)
                calls == <<Invocation("score.predict_proba", model, passed)>>
                proba == predict_proba(model, passed)
            IN  IF proba.raised
                THEN /\ run' = ScoreFailed("ValueError", TRUE, input,
                                           features_df.columns, calls)
                     /\ UNCHANGED inference_output
                \* [:, 1] on the probabilities of a classifier fitted on one class
                ELSE IF Len(model.classes_) < 2
                THEN /\ run' = ScoreFailed("IndexError", TRUE, input,
                                           features_df.columns, calls)
                     /\ UNCHANGED inference_output
                ELSE /\ inference_output' =
                            [columns |-> Append(original_df.columns, "churn_probability"),
                             rows |-> [i \in DOMAIN original_df.rows |->
                                        WithField(original_df.rows[i],
                                                  "churn_probability", proba.values[i][2])]]
                     /\ run' = [RunRecord("score", 0, "", calls) EXCEPT
                                    !.input = input, !.features = features_df.columns,
                                    !.model_loaded = TRUE, !.wrote_output = TRUE,
                                    !.succeeded = TRUE]
    /\ UNCHANGED <<model_pkl, model_metadata, inference_input, registry, data_asset,
                   os_entropy>>
    /\ UNCHANGED <<churn_vars, ids_vars, gen_vars, feature_vars, aux_vars>>

ScoreMain ==
    \E model \in RegisteredModels \cup {None} :
        \E input \in ScoreInputs : Score(model, input)

SignatureFeatures == 5

\* np.random.rand(num_features, num_features) under columns feature_0 .. feature_4
SignatureSample ==
    LET names == <<"feature_0", "feature_1", "feature_2", "feature_3", "feature_4">>
    IN  [columns |-> names,
         rows |-> [i \in 1..SignatureFeatures |->
                    [c \in Range(names) |->
                        Word(os_entropy, SignatureFeatures * i) % ProbCap]]]

(***************************************************************************)
(* Workspace settings: the --subscription-id/--resource-group/              *)
(* --workspace-name arguments, or else config.json.  A config value is a    *)
(* JSON string, JSON null, or absent (the key is not in the object).        *)
(***************************************************************************)
JsonString(text) == [json |-> "string", text |-> text]

JsonNull == [json |-> "null", text |-> ""]

JsonAbsent == [json |-> "absent", text |-> ""]

ConfigKeys == {"subscription_id", "resource_group", "workspace_name"}

ConfigValues == {JsonString("id"), JsonString(""), JsonNull, JsonAbsent}

\* config.json: not there, or an object
ConfigFiles ==
    {[exists |-> FALSE, object |-> [k \in ConfigKeys |-> JsonAbsent]]}
        \cup {[exists |-> TRUE, object |-> o] : o \in [ConfigKeys -> ConfigValues]}

\* config.get(key, "")
ConfigGet(object, key) ==
    IF object[key].json = "absent" THEN JsonString("") ELSE object[key]

\* str(value)
Str(value) == IF value.json = "null" THEN "None" ELSE value.text

\* main up to the call of the operation: [exit |-> sys.exit(1) was called]
ResolveSettings(cli, config) ==
    IF cli
    THEN [exit |-> FALSE, sub_id |-> "cli", rg_name |-> "cli", ws_name |-> "cli"]
    ELSE IF ~config.exists
    THEN [exit |-> TRUE, sub_id |-> "", rg_name |-> "", ws_name |-> ""]
    ELSE LET sub_id == Str(ConfigGet(config.object, "subscription_id"))
             rg_name == Str(ConfigGet(config.object, "resource_group"))
             ws_name == Str(ConfigGet(config.object, "workspace_name"))
         IN  [exit |-> sub_id = "" \/ rg_name = "" \/ ws_name = "",
              sub_id |-> sub_id, rg_name |-> rg_name, ws_name |-> ws_name]

\* what the caller supplied: complete arguments, no config file, a config file
\* with an empty or absent parameter, or a config file with all three set
SettingsCase(cli, config) ==
    IF cli THEN "cli"
    ELSE IF ~config.exists THEN "no_config_file"
    ELSE IF \E k \in ConfigKeys :
                \/ config.object[k].json = "absent"
                \/ config.object[k] = JsonString("")
    THEN "empty_parameter"
    ELSE "config"

ConfigExit(script, cli, config) ==
    [RunRecord(script, 1, "", <<>>) EXCEPT !.settings = SettingsCase(cli, config)]

\* a run that got past the settings and attempted Azure operations
AzureRun(script, exit_code, error, calls, cli, config) ==
    [RunRecord(script, exit_code, error, calls) EXCEPT
        !.settings = SettingsCase(cli, config), !.azure = TRUE]

\* register_model.py main and register_model; azure_ok: the workspace connects
RegisterMain(cli, config, azure_ok) ==
    /\ IF ResolveSettings(cli, config).exit
       THEN /\ run' = ConfigExit("register_model", cli, config)
            /\ UNCHANGED <<registry, os_entropy>>
       ELSE IF ~azure_ok
       THEN /\ run' = AzureRun("register_model", 1, "AzureError", <<>>, cli, config)
            /\ UNCHANGED <<registry, os_entropy>>
       ELSE IF model_pkl = None \/ model_metadata = None
       THEN /\ run' = AzureRun("register_model", 1, "", <<>>, cli, config)
            /\ UNCHANGED <<registry, os_entropy>>
       ELSE LET metadata == model_metadata
                model == model_pkl
                sample_data == SignatureSample
                calls == <<Invocation("register_model.predict", model, sample_data)>>
                get(key) == IF key \in DOMAIN metadata THEN metadata[key] ELSE 0
            IN  /\ UNCHANGED os_entropy
                /\ IF predict(model, sample_data).raised
                   THEN /\ run' = AzureRun("register_model", 1, "ValueError", calls,
                                           cli, config)
                        /\ UNCHANGED registry
                   ELSE /\ registry' =
                                [model |-> model,
                                 params |-> [model_type |-> metadata.model_type,
                                             random_seed |-> metadata.random_seed,
                                             num_samples |-> metadata.num_samples],
                                 metrics |-> [accuracy |-> get("accuracy"),
                                              precision |-> get("precision"),
                                              recall |-> get("recall"),
                                              f1_score |-> get("f1_score")]]
                        /\ run' = Succeeded(AzureRun("register_model", 0, "", calls,
                                                     cli, config))
    /\ UNCHANGED <<model_pkl, model_metadata, inference_input, inference_output,
                   data_asset>>
    /\ UNCHANGED <<churn_vars, ids_vars, gen_vars, feature_vars, aux_vars>>

Next ==
    \/ \E n \in 1..MaxSamples, s \in PipelineSeeds : TrainMain(n, s, FALSE)
    \/ \E n \in 1..MaxSamples, s \in PipelineSeeds : CreateInferenceMain(n, s)
    \/ TestModelMain
    \/ ScoreMain
    \/ \E c \in BOOLEAN, f \in ConfigFiles, a \in BOOLEAN : RegisterMain(c, f, a)

Spec == Init /\ [][Next]_vars

(***************************************************************************)
(* SpecAzure: the entry points that talk to the Azure ML workspace.  What   *)
(* the workspace answers is an input of each run: whether it connects,     *)
(* whether the compute cluster is there or can be created, and how the     *)
(* submitted job ends.                                                     *)
(***************************************************************************)
MaxAssetVersions == 2

\* verify_azure_connection.py main and verify_connection
VerifyMain(cli, config, azure_ok) ==
    /\ IF ResolveSettings(cli, config).exit
       THEN run' = ConfigExit("verify_azure_connection", cli, config)
       ELSE IF ~azure_ok
       THEN run' = AzureRun("verify_azure_connection", 1, "AzureError", <<>>, cli, config)
       ELSE run' = Succeeded(AzureRun("verify_azure_connection", 0, "", <<>>, cli, config))
    /\ UNCHANGED <<model_pkl, model_metadata, inference_input, inference_output,
                   registry, data_asset, os_entropy>>
    /\ UNCHANGED <<churn_vars, ids_vars, gen_vars, feature_vars, aux_vars>>

\* upload_data.py main and upload_data, on the default data/inference_input.csv
UploadMain(cli, config, azure_ok) ==
    /\ IF data_asset = None THEN TRUE ELSE data_asset.version < MaxAssetVersions
    /\ IF ResolveSettings(cli, config).exit
       THEN /\ run' = ConfigExit("upload_data", cli, config)
            /\ UNCHANGED data_asset
       \* the file is looked for before any Azure call
       ELSE IF inference_input = None
       THEN /\ run' = [RunRecord("upload_data", 1, "", <<>>) EXCEPT
                            !.settings = SettingsCase(cli, config)]
            /\ UNCHANGED data_asset
       ELSE IF ~azure_ok
       THEN /\ run' = AzureRun("upload_data", 1, "AzureError", <<>>, cli, config)
            /\ UNCHANGED data_asset
       ELSE /\ data_asset' =
                    [name |-> "churn-inference-data",
                     version |-> IF data_asset = None THEN 1 ELSE data_asset.version + 1]
            /\ run' = Succeeded(AzureRun("upload_data", 0, "", <<>>, cli, config))
    /\ UNCHANGED <<model_pkl, model_metadata, inference_input, inference_output,
                   registry, os_entropy>>
    /\ UNCHANGED <<churn_vars, ids_vars, gen_vars, feature_vars, aux_vars>>

\* ensure_compute: the cluster is found, or created, or its creation fails
ComputeOutcomes == {"found", "created", "create_failed"}

\* how the submitted job ends; jobs.stream raises for a failed job only
JobOutcomes == {"Completed", "Failed", "Canceled"}

\* run_inference_pipeline.py main and run_pipeline
RunPipelineMain(cli, config, azure_ok, compute, job) ==
    /\ IF ResolveSettings(cli, config).exit
       THEN run' = ConfigExit("run_inference_pipeline", cli, config)
       ELSE IF ~azure_ok \/ compute = "create_failed"
       THEN run' = AzureRun("run_inference_pipeline", 1, "AzureError", <<>>, cli, config)
       \* ml_client.data.get(name=..., label="latest")
       ELSE IF data_asset = None
       THEN run' = AzureRun("run_inference_pipeline", 1, "ResourceNotFoundError", <<>>,
                            cli, config)
       \* ml_client.jobs.stream(job_name)
       ELSE IF job = "Failed"
       THEN run' = [AzureRun("run_inference_pipeline", 1, "JobException", <<>>,
                             cli, config) EXCEPT !.job_status = job]
       \* jobs.get, jobs.download, return True: completed_job.status is only printed
       ELSE run' = [AzureRun("run_inference_pipeline", 0, "", <<>>, cli, config) EXCEPT
                        !.job_status = job, !.succeeded = (job = "Completed")]
    /\ UNCHANGED <<model_pkl, model_metadata, inference_input, inference_output,
                   registry, data_asset, os_entropy>>
    /\ UNCHANGED <<churn_vars, ids_vars, gen_vars, feature_vars, aux_vars>>

NextAzure ==
    \/ \E n \in 1..MaxSamples, s \in PipelineSeeds : CreateInferenceMain(n, s)
    \/ \E c \in BOOLEAN, f \in ConfigFiles, a \in BOOLEAN : VerifyMain(c, f, a)
    \/ \E c \in BOOLEAN, f \in ConfigFiles, a \in BOOLEAN : UploadMain(c, f, a)
    \/ \E c \in BOOLEAN, f \in ConfigFiles, a \in BOOLEAN :
        \E compute \in ComputeOutcomes, job \in JobOutcomes :
            RunPipelineMain(c, f, a, compute, job)
    \/ \E c \in BOOLEAN, f \in ConfigFiles, a \in BOOLEAN : RegisterMain(c, f, a)

SpecAzure == Init /\ [][NextAzure]_vars

(***************************************************************************)
(* SpecTrain: training runs on one output directory, any of which may fail *)
(* in save_artifacts after model.pkl is written, each followed or not by a *)
(* test_model run.                                                         *)
(***************************************************************************)
TrainSeeds == PipelineSeeds \cup {7}

NextTrain ==
    \/ \E n \in 1..MaxSamples, s \in TrainSeeds, io_failure \in BOOLEAN :
        TrainMain(n, s, io_failure)
    \/ TestModelMain

SpecTrain == Init /\ [][NextTrain]_vars

(***************************************************************************)
(* SpecIdFormat: one element of the customer_id column of either           *)
(* generator, for sample counts up to MaxWideSamples.  The element at      *)
(* position k is the k-th value of the range the comprehension iterates.   *)
(***************************************************************************)
MaxWideSamples == 100000

IdFormatCounts ==
    (1..MaxIdSamples) \cup {DefaultTrainSamples, MaxWideSamples - 1, MaxWideSamples}

IdPositions(n_samples) ==
    {k \in (1..Min(n_samples, MaxIdSamples)) \cup {n_samples - 1, n_samples} : k >= 1}

\* [f"CUST-{i:05d}" for i in range(1, n_samples + 1)][k - 1]
TrainCustomerId(n_samples, k) == FormatId(TrainIdStart + k - 1)

\* [f"CUST-{i:05d}" for i in range(10001, 10001 + n_samples)][k - 1]
InferenceCustomerId(n_samples, k) == FormatId(InferenceIdStart + k - 1)

InitIdFormat ==
    /\ id_sample = None
    /\ MetricsIdle /\ ScoringIdle
    /\ ChurnIdle /\ IdsIdle /\ GenIdle /\ FeaturesIdle /\ PipelineIdle
    /\ os_entropy = 0

SampleTrainId(n_samples, k) ==
    /\ id_sample' = [generator |-> "generate_synthetic_data", n_samples |-> n_samples,
                     position |-> k, value |-> TrainCustomerId(n_samples, k)]
    /\ UNCHANGED <<metric_vars, scoring_vars, core_vars>>

SampleInferenceId(n_samples, k) ==
    /\ id_sample' = [generator |-> "generate_inference_data", n_samples |-> n_samples,
                     position |-> k, value |-> InferenceCustomerId(n_samples, k)]
    /\ UNCHANGED <<metric_vars, scoring_vars, core_vars>>

NextIdFormat ==
    \/ \E n \in IdFormatCounts : \E k \in IdPositions(n) : SampleTrainId(n, k)
    \/ \E n \in IdFormatCounts : \E k \in IdPositions(n) : SampleInferenceId(n, k)

SpecIdFormat == InitIdFormat /\ [][NextIdFormat]_vars

(***************************************************************************)
(* SpecScoring: MaxCalls scoring calls of test_model (encode_features,     *)
(* align_features, predict_proba, predict) running interleaved on one      *)
(* schema list and one fitted classifier.  Each call owns its frame; the   *)
(* align loop is interleaved one iteration at a time.  The classifier's    *)
(* predict and predict_proba are library code that reads the fitted        *)
(* estimator.                                                              *)
(***************************************************************************)
MaxCalls == 2

ScoringInputs ==
    {[columns |-> RawColumns, rows |-> <<create_sample_records.rows[k]>>] : k \in {1, 2}}

SharedModels ==
    {LET prepared == prepare_features(generate_synthetic_data(MaxSamples, s))
     IN  train_and_evaluate(prepared.features, prepared.target, s).model :
        s \in PipelineSeeds}

NewCall(sample_data) ==
    [pc |-> "encode", sample_data |-> sample_data, data |-> None, cursor |-> 0,
     probabilities |-> None, predictions |-> None]

LoopBodyAppends(data, model_features, col) ==
    IF Contains(data.columns, col) THEN [data |-> data, model_features |-> model_features]
    ELSE [data |-> SetColumn(data, col, 0), model_features |-> Append(model_features, col)]

\* one iteration of the loop of align_features: the two objects it holds, afterwards
LoopBody(data, model_features, col) ==
    [data |-> IF ~Contains(data.columns, col) THEN SetColumn(data, col, 0) ELSE data,
     model_features |-> model_features]

InitScoring ==
    /\ shared_model \in SharedModels
    /\ shared_schema = shared_model.feature_names_in_
    /\ scoring_calls \in [1..MaxCalls -> {NewCall(f) : f \in ScoringInputs}]
    /\ MetricsIdle /\ IdSampleIdle
    /\ ChurnIdle /\ IdsIdle /\ GenIdle /\ FeaturesIdle /\ PipelineIdle
    /\ os_entropy = 0

EncodeCall(i) ==
    /\ scoring_calls[i].pc = "encode"
    /\ scoring_calls' =
          [scoring_calls EXCEPT ![i].data = encode_features(scoring_calls[i].sample_data),
                                ![i].cursor = 1,
                                ![i].pc = "align"]
    /\ UNCHANGED <<shared_schema, shared_model, metric_vars, id_sample, core_vars>>

AlignLoop(i) ==
    /\ scoring_calls[i].pc = "align"
    /\ scoring_calls[i].cursor <= Len(shared_schema)
    /\ LET after == LoopBody(scoring_calls[i].data, shared_schema,
                             shared_schema[scoring_calls[i].cursor])
       IN  /\ scoring_calls' = [scoring_calls EXCEPT ![i].data = after.data,
                                                     ![i].cursor = @ + 1]
           /\ shared_schema' = after.model_features
    /\ UNCHANGED <<shared_model, metric_vars, id_sample, core_vars>>

\* data = data[model_features]
AlignSelect(i) ==
    /\ scoring_calls[i].pc = "align"
    /\ scoring_calls[i].cursor > Len(shared_schema)
    /\ LET selected == SelectColumns(scoring_calls[i].data, shared_schema)
       IN  scoring_calls' =
              [scoring_calls EXCEPT ![i].data = selected,
                                    ![i].pc = IF selected = KeyError THEN "failed"
                                              ELSE "predict_proba"]
    /\ UNCHANGED <<shared_schema, shared_model, metric_vars, id_sample, core_vars>>

PredictProbaCall(i) ==
    /\ scoring_calls[i].pc = "predict_proba"
    /\ scoring_calls' =
          [scoring_calls EXCEPT
              ![i].probabilities = predict_proba(shared_model, scoring_calls[i].data),
              ![i].pc = "predict"]
    /\ UNCHANGED <<shared_schema, shared_model, metric_vars, id_sample, core_vars>>

PredictCall(i) ==
    /\ scoring_calls[i].pc = "predict"
    /\ scoring_calls' =
          [scoring_calls EXCEPT
              ![i].predictions = predict(shared_model, scoring_calls[i].data),
              ![i].pc = "done"]
    /\ UNCHANGED <<shared_schema, shared_model, metric_vars, id_sample, core_vars>>

NextScoring ==
    \/ \E i \in 1..MaxCalls : EncodeCall(i)
    \/ \E i \in 1..MaxCalls : AlignLoop(i)
    \/ \E i \in 1..MaxCalls : AlignSelect(i)
    \/ \E i \in 1..MaxCalls : PredictProbaCall(i)
    \/ \E i \in 1..MaxCalls : PredictCall(i)

SpecScoring == InitScoring /\ [][NextScoring]_vars

(***************************************************************************)
(* Properties.                                                             *)
(***************************************************************************)

\* C3: align_features never fails; its result has exactly the schema's columns in
\* schema order, a schema column absent from the input is 0 in every row, a schema
\* column present in the input keeps its values row by row, and input columns
\* outside the schema are dropped.
C3_AlignTotal ==
    aligned # None =>
        LET input == encode_features(raw)
        IN  /\ aligned # KeyError
            /\ aligned.columns = schema
            /\ Len(aligned.columns) = Len(schema)
            /\ Len(aligned.rows) = Len(input.rows)
            /\ \A i \in DOMAIN input.rows :
                /\ DOMAIN aligned.rows[i] = Range(schema)
                /\ \A k \in DOMAIN schema :
                    aligned.rows[i][schema[k]] =
                        IF Contains(input.columns, schema[k])
                        THEN input.rows[i][schema[k]]
                        ELSE 0

C3_Witness ==
    /\ aligned # None
    /\ aligned # KeyError
    /\ Len(schema) = 2
    /\ \E k \in DOMAIN schema : ~Contains(encode_features(raw).columns, schema[k])
    /\ \E k \in DOMAIN schema :
        /\ Contains(encode_features(raw).columns, schema[k])
        /\ \E i \in DOMAIN aligned.rows : aligned.rows[i][schema[k]] # 0
    /\ \E c \in Range(encode_features(raw).columns) : ~Contains(schema, c)

\* C4: aligning an already aligned frame to the same schema gives the aligned frame
\* again: same column names, same order, same cells.
C4_AlignIdempotent ==
    realigned # None =>
        realigned = align_features(encode_features(raw), schema).result

C4_Witness ==
    /\ realigned # None
    /\ realigned # KeyError
    /\ Len(schema) = 2
    /\ \E k \in DOMAIN schema : ~Contains(encode_features(raw).columns, schema[k])
    /\ \E k \in DOMAIN schema : \E i \in DOMAIN realigned.rows :
        realigned.rows[i][schema[k]] # 0

\* C5: a frame aligned to the schema captured from its own encoding is the encoded
\* frame itself, and the caller's frame is left as it was.
C5_SchemaRoundTrip ==
    (aligned # None /\ schema = encode_features(raw).columns) =>
        /\ aligned = encode_features(raw)
        /\ encoded = encode_features(raw)

C5_Witness ==
    /\ aligned # None
    /\ aligned # KeyError
    /\ schema = encode_features(raw).columns
    /\ Len(raw.rows) = 2
    /\ Len(schema) > 7

\* C6: the encoder replaces each categorical column by one 0/1 indicator column
\* per value observed in the input, named column_value; the other columns pass
\* through unchanged; the naming is injective, so the column set is determined by,
\* and determines, the observed category sets.
C6_EncoderColumns ==
    (encoded # None /\ aligned = None) =>
        LET categorical == {"contract_type", "internet_service", "payment_method"}
            passthrough == Range(raw.columns) \ categorical
            options(c) ==
                IF c = "contract_type" THEN Range(contract_options)
                ELSE IF c = "internet_service" THEN Range(internet_options)
                ELSE Range(payment_options)
            observed(c) == {raw.rows[i][c] : i \in DOMAIN raw.rows}
            indicators == {<<c, v>> : c \in categorical, v \in UNION {options(d) : d \in categorical}}
            seen == {q \in indicators : q[2] \in observed(q[1])}
        IN  /\ Range(encoded.columns) = passthrough \cup {q[1] \o "_" \o q[2] : q \in seen}
            /\ Cardinality(Range(encoded.columns)) = Len(encoded.columns)
            /\ Len(encoded.rows) = Len(raw.rows)
            /\ \A i \in DOMAIN raw.rows :
                /\ \A c \in passthrough : encoded.rows[i][c] = raw.rows[i][c]
                /\ \A q \in seen :
                    encoded.rows[i][q[1] \o "_" \o q[2]] =
                        IF raw.rows[i][q[1]] = q[2] THEN 1 ELSE 0
            /\ \A q1, q2 \in indicators :
                (q1[1] \o "_" \o q1[2] = q2[1] \o "_" \o q2[2]) => q1 = q2

C6_Witness ==
    /\ encoded # None
    /\ aligned = None
    /\ Len(raw.rows) = 2
    /\ raw.rows[1].contract_type # raw.rows[2].contract_type
    /\ raw.rows[1].internet_service = raw.rows[2].internet_service
    /\ Len(encoded.columns) = 9

\* C7: the churn probability of a record is the result of the four rules applied in
\* order: 0.15; month-to-month sets 0.40; electronic_check raises to at least 0.35;
\* fiber_optic with more than 5 tickets adds 0.20 capped at 1.0; tenure over 36
\* halves.  The month-to-month, electronic_check, fiber_optic, 8 tickets, tenure 40
\* record gets exactly 0.30: 300 thousandths, and the float 0.30 in the array.
C7_ChurnRuleOrder ==
    churn_prob # -1 =>
        LET p0 == 150
            p1 == IF record.contract_type = "month-to-month" THEN 400 ELSE p0
            p2 == IF record.payment_method = "electronic_check"
                  THEN (IF p1 >= 350 THEN p1 ELSE 350) ELSE p1
            p3 == IF record.internet_service = "fiber_optic"
                     /\ record.num_support_tickets > 5
                  THEN (IF p2 + 200 <= 1000 THEN p2 + 200 ELSE 1000) ELSE p2
        IN  /\ IF record.tenure_months > 36 THEN 2 * churn_prob = p3 ELSE churn_prob = p3
            /\ (/\ record.contract_type = "month-to-month"
                /\ record.payment_method = "electronic_check"
                /\ record.internet_service = "fiber_optic"
                /\ record.num_support_tickets = 8
                /\ record.tenure_months = 40) =>
                    (churn_prob = 300 /\ churn_steps.tenure = Float64(300))

\* C8: for every training sample count and every inference sample count, the
\* customer_ids of the two generators have no element in common.
C8_IdsDisjoint == Range(train_ids) \cap Range(inference_ids) = {}

\* C9: two generator runs of the same kind with the same seed and the same
\* n_samples produce the same dataset, whatever else differs between the runs.
C9_GeneratorDeterminism ==
    (/\ gen_a # None
     /\ gen_b # None
     /\ gen_a.kind = gen_b.kind
     /\ gen_a.seed = gen_b.seed
     /\ gen_a.n_samples = gen_b.n_samples) => gen_a.data = gen_b.data

C9_Witness ==
    /\ gen_a # None
    /\ gen_b # None
    /\ gen_a.kind = "train"
    /\ gen_b.kind = "train"
    /\ gen_a.seed = gen_b.seed
    /\ gen_a.n_samples = 3
    /\ gen_b.n_samples = 3
    /\ gen_a.data = gen_b.data
    /\ \E i \in DOMAIN gen_a.data.rows : gen_a.data.rows[i].churned = 1

\* C1: every invocation of the fitted classifier passes a matrix whose columns are
\* exactly the columns the classifier was fitted on, in the same order, with no
\* customer_id among them.
C1_ClassifierSeesSchema ==
    run # None =>
        \A k \in DOMAIN run.calls :
            /\ run.calls[k].columns = run.calls[k].feature_names
            /\ ~Contains(run.calls[k].columns, "customer_id")

\* C2: with a classifier trained and persisted, scoring a generated unlabeled
\* dataset (customer_id plus the seven raw attributes) succeeds, and the output has
\* one row per input row in input order, every churn_probability in [0,1], and the
\* input's columns plus exactly churn_probability.
C2_EndToEndScoring ==
    (/\ run # None
     /\ run.script = "score"
     /\ run.model_loaded
     /\ run.input # None
     /\ run.input.columns = InferenceColumns) =>
        /\ run.exit_code = 0
        /\ run.wrote_output
        /\ inference_output # None
        /\ inference_output.columns = Append(run.input.columns, "churn_probability")
        /\ Len(inference_output.rows) = Len(run.input.rows)
        /\ \A i \in DOMAIN run.input.rows :
            /\ \A c \in Range(run.input.columns) :
                inference_output.rows[i][c] = run.input.rows[i][c]
            /\ inference_output.rows[i]["churn_probability"] \in 0..1000

\* C10: a run of score whose built feature matrix does not have the columns the
\* classifier was fitted on ends with status 1, leaves the output file as it was,
\* and hands the classifier the matrix as built, not a padded, truncated or
\* reordered one.
C10_MismatchIsFatal ==
    [][(/\ run' # run
        /\ run'.script = "score"
        /\ Len(run'.calls) = 1
        /\ run'.features # run'.calls[1].feature_names) =>
            /\ run'.exit_code = 1
            /\ ~run'.wrote_output
            /\ inference_output' = inference_output
            /\ run'.calls[1].columns = run'.features]_vars

C10_Witness ==
    /\ run # None
    /\ run.script = "score"
    /\ run.exit_code = 1
    /\ run.error = "ValueError"
    /\ Len(run.calls) = 1
    /\ ~Contains(run.features, "customer_id")
    /\ run.features # run.calls[1].feature_names
    /\ run.calls[1].columns = run.features
    /\ inference_output # None

\* C11: a zero denominator in precision, recall or F1 gives 0.0 for that metric and
\* no error: the metrics dictionary always has its four numeric entries, each in
\* [0,1]; with no true positive and no predicted positive, precision, recall and
\* f1_score are all 0.0.
C11_MetricDegeneracy ==
    eval_metrics # None =>
        LET idx == DOMAIN eval_y_test
            tp == Cardinality({i \in idx : eval_y_test[i] = 1 /\ eval_y_pred[i] = 1})
            predicted == Cardinality({i \in idx : eval_y_pred[i] = 1})
            actual == Cardinality({i \in idx : eval_y_test[i] = 1})
        IN  /\ DOMAIN eval_metrics = {"accuracy", "precision", "recall", "f1_score"}
            /\ \A k \in DOMAIN eval_metrics : eval_metrics[k] \in 0..10000
            /\ predicted = 0 => eval_metrics.precision = 0
            /\ actual = 0 => eval_metrics.recall = 0
            /\ (predicted + actual = 0) => eval_metrics.f1_score = 0
            /\ (tp = 0 /\ predicted = 0) =>
                    /\ eval_metrics.precision = 0
                    /\ (actual = 0 => eval_metrics.recall = 0 /\ eval_metrics.f1_score = 0)
            /\ (predicted > 0 /\ tp = predicted) => eval_metrics.precision = 10000

C11_Witness ==
    /\ eval_metrics # None
    /\ Len(eval_y_test) = 3
    /\ \A i \in DOMAIN eval_y_test : eval_y_test[i] = 0 /\ eval_y_pred[i] = 0
    /\ eval_metrics.precision = 0
    /\ eval_metrics.recall = 0
    /\ eval_metrics.f1_score = 0
    /\ eval_metrics.accuracy = 10000

\* C12: every entry point ends with status 0 exactly when its operation succeeded
\* and with status 1 otherwise; when the configuration file is missing or one of
\* subscription_id, resource_group, workspace_name is empty it ends with status 1
\* and attempts no Azure operation.
C12_ExitStatus ==
    run # None =>
        /\ run.exit_code \in {0, 1}
        /\ (run.exit_code = 0) <=> run.succeeded
        /\ run.settings \in {"no_config_file", "empty_parameter"} =>
                (run.exit_code = 1 /\ ~run.azure)

\* C13: after any sequence of training runs on one output directory, a run failing
\* between the two writes included, the persisted classifier and the persisted
\* metadata come from the same training run: same seed, same sample count, and the
\* metadata's features list is the classifier's fitted column list.
C13_PersistedAsPair ==
    (model_pkl # None /\ model_metadata # None) =>
        /\ model_metadata.random_seed = model_pkl.random_state
        /\ model_metadata.num_samples - TestCount(model_metadata.num_samples)
                = model_pkl.n_train
        /\ model_metadata.features = model_pkl.feature_names_in_


(***************************************************************************)
(* C14: every customer_id either generator emits is the prefix "CUST-"     *)
(* followed by exactly five decimal digits, for every n_samples.           *)
(***************************************************************************)
C14_FiveDigitIds ==
    id_sample # None =>
        /\ Len(id_sample.value) = Len("CUST-") + IdWidth
        /\ SubSeq(id_sample.value, 1, Len("CUST-")) = "CUST-"
        /\ \A i \in 1..IdWidth :
            SubSeq(id_sample.value, Len("CUST-") + i, Len("CUST-") + i) \in Range(DigitChars)


(***************************************************************************)
(* C15: after a successful training run the features list of               *)
(* model_metadata.json is the ordered column list the classifier was       *)
(* fitted on; it holds neither customer_id nor churned, no name twice, the *)
(* four numeric columns first and then the indicator columns in the        *)
(* encoder's order (contract_type, internet_service, payment_method).      *)
(***************************************************************************)
C15_SchemaIsFittedColumns ==
    (run # None /\ run.script = "train_model" /\ run.exit_code = 0) =>
        LET features == model_metadata.features
            indicator_group(name) ==
                CHOOSE g \in 1..Len(CATEGORICAL_COLUMNS) :
                    \E v \in Range(SortedValues(CATEGORICAL_COLUMNS[g])) :
                        name = DummyName(CATEGORICAL_COLUMNS[g], v)
        IN  /\ features = model_pkl.feature_names_in_
            /\ ~Contains(features, "customer_id")
            /\ ~Contains(features, "churned")
            /\ \A i, j \in DOMAIN features : features[i] = features[j] => i = j
            /\ Len(features) >= 4
            /\ SubSeq(features, 1, 4) =
                  <<"tenure_months", "monthly_charges", "total_charges",
                    "num_support_tickets">>
            /\ \A i \in 5..Len(features) :
                  \E c \in Range(CATEGORICAL_COLUMNS) :
                      \E v \in Range(SortedValues(c)) : features[i] = DummyName(c, v)
            /\ \A i, j \in 5..Len(features) :
                  i < j => indicator_group(features[i]) <= indicator_group(features[j])

C15_Witness ==
    /\ run # None /\ run.script = "train_model" /\ run.exit_code = 0
    /\ model_metadata.num_samples = 3
    /\ Len(model_metadata.features) > 6
    /\ model_metadata.features = model_pkl.feature_names_in_


(***************************************************************************)
(* C16: every record of either generator has tenure_months in 1..72,       *)
(* num_support_tickets in 0..10, monthly_charges in [20, 120),             *)
(* total_charges >= 0 (a negative tenure * monthly + noise is floored to   *)
(* 0), each categorical value in its option set, and, for labelled data,   *)
(* churned in {0, 1}.                                                      *)
(***************************************************************************)
C16_RecordInvariants ==
    \A g \in {gen_a, gen_b} \ {None} :
        \A i \in DOMAIN g.data.rows :
            LET r == g.data.rows[i]
            IN  /\ r.tenure_months \in 1..72
                /\ r.num_support_tickets \in 0..10
                /\ r.monthly_charges >= 20 /\ r.monthly_charges < 120
                /\ r.total_charges >= 0
                /\ r.contract_type \in {"month-to-month", "one-year", "two-year"}
                /\ r.internet_service \in {"dsl", "fiber_optic", "no"}
                /\ r.payment_method \in
                      {"electronic_check", "mailed_check", "bank_transfer", "credit_card"}
                /\ ("churned" \in DOMAIN r) = (g.kind = "train")
                /\ g.kind = "train" => r.churned \in {0, 1}

\* a labelled and an unlabelled dataset, each with a record whose total was floored
C16_Witness ==
    /\ gen_a # None /\ gen_a.kind = "train"
    /\ gen_b # None /\ gen_b.kind = "inference"
    /\ \A g \in {gen_a, gen_b} :
        \E i \in DOMAIN g.data.rows :
            /\ g.data.rows[i].tenure_months * g.data.rows[i].monthly_charges < NoiseStd
            /\ g.data.rows[i].total_charges = 0

(***************************************************************************)
(* C19: the two generators make the same draws in the same order, the      *)
(* label draw coming last in the training generator only: a training run   *)
(* and an inference run with equal seed and equal n_samples agree in every *)
(* column except customer_id and churned.                                  *)
(***************************************************************************)
C19_SameDraws ==
    (/\ gen_a # None /\ gen_a.kind = "train"
     /\ gen_b # None /\ gen_b.kind = "inference"
     /\ gen_a.seed = gen_b.seed
     /\ gen_a.n_samples = gen_b.n_samples) =>
        /\ DOMAIN gen_a.data.rows = DOMAIN gen_b.data.rows
        /\ \A i \in DOMAIN gen_a.data.rows :
            \A c \in Range(RawColumns) : gen_a.data.rows[i][c] = gen_b.data.rows[i][c]

C19_Witness ==
    /\ gen_a # None /\ gen_a.kind = "train"
    /\ gen_b # None /\ gen_b.kind = "inference"
    /\ gen_a.seed = gen_b.seed
    /\ gen_a.n_samples = MaxGenSamples
    /\ gen_b.n_samples = MaxGenSamples
    /\ \A c \in Range(RawColumns) :
        gen_a.data.rows[MaxGenSamples][c] = gen_b.data.rows[MaxGenSamples][c]
    /\ gen_a.data.rows[1].customer_id # gen_b.data.rows[1].customer_id
    /\ gen_a.data.rows[1].contract_type # gen_a.data.rows[1].internet_service


C20_LoggedMetrics ==
    (/\ run # None
     /\ run.script = "register_model"
     /\ run.settings \in {"cli", "config"}
     /\ run.error # "AzureError"
     /\ model_pkl # None
     /\ model_metadata # None) =>
        /\ registry # None
        /\ registry.metrics = model_metadata.metrics


(***************************************************************************)
(* C17: no step of a scoring call (encode_features, align_features,        *)
(* predict_proba, predict) changes the shared schema list or the shared    *)
(* classifier; and whatever the interleaving, a call that has finished     *)
(* holds the probabilities and predictions it gets when it runs alone.     *)
(***************************************************************************)
C17_SharedReadOnly ==
    /\ [][shared_schema' = shared_schema /\ shared_model' = shared_model]_vars
    /\ [](\A i \in DOMAIN scoring_calls :
            scoring_calls[i].pc # "failed"
            /\ (scoring_calls[i].pc = "done" =>
                  LET encoded_data == encode_features(scoring_calls[i].sample_data)
                      aligned_data ==
                          align_features(encoded_data, shared_model.feature_names_in_).result
                  IN  /\ scoring_calls[i].data = aligned_data
                      /\ scoring_calls[i].probabilities =
                            predict_proba(shared_model, aligned_data)
                      /\ scoring_calls[i].predictions = predict(shared_model, aligned_data)
                      /\ ~scoring_calls[i].probabilities.raised))

\* one call finished while another, on a different input, is inside its align loop
C17_Witness ==
    /\ Len(scoring_calls) >= 2
    /\ scoring_calls[1].pc = "align"
    /\ scoring_calls[1].cursor = 6
    /\ scoring_calls[1].data.columns # scoring_calls[1].sample_data.columns
    /\ scoring_calls[2].pc = "done"
    /\ scoring_calls[2].sample_data # scoring_calls[1].sample_data
    /\ ~scoring_calls[2].probabilities.raised
    /\ shared_schema = shared_model.feature_names_in_


(***************************************************************************)
(* C21: run_pipeline returns True (exit status 0) only if the submitted    *)
(* scoring job ended in a successful terminal state, and returns False     *)
(* (exit status 1) whenever the job failed.                                *)
(***************************************************************************)
C21_JobStatusDecidesResult ==
    (run # None /\ run.script = "run_inference_pipeline") =>
        /\ run.exit_code = 0 => run.job_status = "Completed"
        /\ run.job_status = "Failed" => run.exit_code = 1

====
